---- MODULE Spec2Model ----
(***************************************************************************)
(* A model of `sorry`, a command-line assistant: the configuration store   *)
(* (config.rs), the shell-history reader (history.rs), the configuration   *)
(* commands (cli.rs), the chat-completion client (api.rs) and the          *)
(* dispatch of one invocation (main.rs).                                   *)
(*                                                                         *)
(* Strings whose characters matter (history lines, commands) are sequences *)
(* of one-character strings; opaque strings (keys, models, URLs, messages) *)
(* are TLA+ strings.                                                       *)
(***************************************************************************)
EXTENDS Integers, Sequences, FiniteSets, TLC

\* ------------------------------------------------------------------ bounds

\* number of lines of a history file / of a --last-commands string
MaxLines == 3
\* largest `count` get_last_commands is called with directly
MaxCount == 3

\* ------------------------------------------------------------- str helpers

\* char::is_whitespace, on the characters of the model's alphabet
IsWhitespace(c) == c \in {" ", "\t", "\n", "\r"}

RECURSIVE TrimStart(_)
\* str::trim_start
TrimStart(s) ==
    IF s # <<>> /\ IsWhitespace(Head(s)) THEN TrimStart(Tail(s)) ELSE s

RECURSIVE TrimEnd(_)
\* str::trim_end
TrimEnd(s) ==
    IF s # <<>> /\ IsWhitespace(s[Len(s)])
    THEN TrimEnd(SubSeq(s, 1, Len(s) - 1))
    ELSE s

\* str::trim
Trim(s) == TrimEnd(TrimStart(s))

\* str::starts_with
StartsWith(s, p) == Len(s) >= Len(p) /\ SubSeq(s, 1, Len(p)) = p

\* str::contains(char)
Contains(s, c) == \E i \in 1..Len(s) : s[i] = c

\* str::find(char): the 1-based index of the first occurrence (0: None)
Find(s, c) ==
    IF Contains(s, c)
    THEN CHOOSE i \in 1..Len(s) : s[i] = c /\ \A j \in 1..(i - 1) : s[j] # c
    ELSE 0

RECURSIVE Lines(_)
\* str::lines: split at "\n", a trailing "\r" of a line stripped, no final
\* empty line after a terminating "\n"
Lines(s) ==
    IF s = <<>> THEN <<>>
    ELSE LET n    == Find(s, "\n")
             raw  == IF n = 0 THEN s ELSE SubSeq(s, 1, n - 1)
             line == IF raw # <<>> /\ raw[Len(raw)] = "\r"
                     THEN SubSeq(raw, 1, Len(raw) - 1) ELSE raw
             rest == IF n = 0 THEN <<>> ELSE SubSeq(s, n + 1, Len(s))
         IN  <<line>> \o Lines(rest)

\* Option<T>: None is the empty sequence, Some(x) the one-element sequence
None == <<>>
Some(x) == <<x>>

\* the tool's own name, the prefix of a self-invocation
ToolName == <<"s", "o", "r", "r", "y">>

\* the zsh extended-history marker
Marker == <<":", " ">>

\* ---------------------------------------------------------------- history

\* str::rfind(char): the index of the last occurrence (0: None)
RFind(s, c) ==
    IF Contains(s, c)
    THEN CHOOSE i \in 1..Len(s) : s[i] = c /\ \A j \in (i + 1)..Len(s) : s[j] # c
    ELSE 0

\* parse_zsh_line cutting at the last semicolon instead of the first
parse_zsh_line_rfind(l) ==
    LET line == Trim(l) IN
    IF line = <<>> THEN None
    ELSE IF StartsWith(line, Marker)
         THEN IF Contains(line, ";")
                 /\ SubSeq(line, RFind(line, ";") + 1, Len(line)) # <<>>
              THEN Some(SubSeq(line, RFind(line, ";") + 1, Len(line)))
              ELSE None
         ELSE Some(line)

\* fn parse_zsh_line
parse_zsh_line(l) ==
    LET line == Trim(l) IN
    IF line = <<>> THEN None
    ELSE IF StartsWith(line, Marker)
         THEN IF Contains(line, ";")
                 /\ SubSeq(line, Find(line, ";") + 1, Len(line)) # <<>>
              THEN Some(SubSeq(line, Find(line, ";") + 1, Len(line)))
              ELSE None
         ELSE Some(line)

\* fn parse_bash_line
parse_bash_line(l) ==
    LET line == Trim(l) IN
    IF line = <<>> THEN None ELSE Some(line)

RECURSIVE filter_map_bash(_)
\* content.lines().filter_map(|line| parse_bash_line(line)).collect()
filter_map_bash(ls) ==
    IF ls = <<>> THEN <<>>
    ELSE parse_bash_line(Head(ls)) \o filter_map_bash(Tail(ls))

\* the closure comparing the whole command with the name, not its prefix
NotSorry_eq(cmd) == Trim(cmd) # ToolName

\* the closure of `retain` / `filter`: |cmd| !cmd.trim().starts_with("sorry")
NotSorry(cmd) == ~StartsWith(Trim(cmd), ToolName)

\* usize::saturating_sub
saturating_sub(a, b) == IF a >= b THEN a - b ELSE 0

RECURSIVE MapTrim(_)
\* .map(|line| line.trim().to_string())
MapTrim(ls) ==
    IF ls = <<>> THEN <<>> ELSE <<Trim(Head(ls))>> \o MapTrim(Tail(ls))

\* parse_commands_from_string keeping each line as given, not trimmed
parse_commands_from_string_untrimmed(commands_str) ==
    SelectSeq(SelectSeq(Lines(commands_str), LAMBDA l : l # <<>>), NotSorry)

\* fn parse_commands_from_string
parse_commands_from_string(commands_str) ==
    SelectSeq(SelectSeq(MapTrim(Lines(commands_str)), LAMBDA l : l # <<>>),
              NotSorry)

\* ----------------------------------------------------------------- config

\* enum Mood
Moods == {"Princess", "Bro", "Bitch"}

\* #[default] Princess
DefaultMood == "Princess"

\* #[serde(rename_all = "lowercase")]: the serialized name of a variant
MoodToJson(m) ==
    CASE m = "Princess" -> "princess"
      [] m = "Bro"      -> "bro"
      [] m = "Bitch"    -> "bitch"

\* the lowercase names a Mood deserializes from
MoodJsonNames == {MoodToJson(m) : m \in Moods}

\* the variant a serialized name stands for
MoodFromJson(s) == CHOOSE m \in Moods : MoodToJson(m) = s

\* from_index counting from 0
from_index_zero_based(idx) ==
    CASE idx = 0 -> Some("Princess")
      [] idx = 1 -> Some("Bro")
      [] idx = 2 -> Some("Bitch")
      [] OTHER   -> None

\* Mood::from_index
from_index(idx) ==
    CASE idx = 1 -> Some("Princess")
      [] idx = 2 -> Some("Bro")
      [] idx = 3 -> Some("Bitch")
      [] OTHER   -> None

\* fn default_model (config.rs)
default_model(provider) ==
    CASE provider = "openai" ->
            <<"g", "p", "t", "-", "4", ".", "1", "-", "m", "i", "n", "i">>
      [] provider = "groq"   ->
            <<"o", "p", "e", "n", "a", "i", "/", "g", "p", "t", "-", "o", "s", "s", "-", "2", "0", "b">>
      [] OTHER               ->
            <<"g", "p", "t", "-", "4", ".", "1", "-", "m", "i", "n", "i">>

\* fn default_model (main.rs)
main_default_model(provider) ==
    CASE provider = "openai" ->
            <<"g", "p", "t", "-", "4", ".", "1", "-", "m", "i", "n", "i">>
      [] provider = "groq"   ->
            <<"l", "l", "a", "m", "a", "-", "3", ".", "3", "-", "7", "0", "b", "-", "v", "e", "r", "s", "a", "t", "i", "l", "e">>
      [] OTHER               ->
            <<"g", "p", "t", "-", "4", ".", "1", "-", "m", "i", "n", "i">>

\* fn default_base_url
default_base_url(provider) ==
    CASE provider = "openai" -> "https://api.openai.com/v1"
      [] provider = "groq"   -> "https://api.groq.com/openai/v1"
      [] OTHER               -> "https://api.openai.com/v1"

\* struct ProviderConfig
ProviderConfig(api_key, base_url, model) ==
    [api_key |-> api_key, base_url |-> base_url, model |-> model]

\* Config::default_providers
default_providers ==
    [n \in {"openai", "groq"} |->
        ProviderConfig(<<>>, default_base_url(n), default_model(n))]

\* Config::default_providers (main.rs)
main_default_providers ==
    [n \in {"openai", "groq"} |->
        ProviderConfig(<<>>, default_base_url(n), main_default_model(n))]

\* the empty HashMap
EmptyMap == [n \in {} |-> ProviderConfig(<<>>, "", <<>>)]

\* struct Config
Config(provider, mood, providers) ==
    [provider |-> provider, mood |-> mood, providers |-> providers]

\* Config::default(), from #[derive(Default)]
DefaultConfig == Config(None, None, EmptyMap)

\* JSON values, tagged
JMissing == <<"missing">>
JNull == <<"null">>
JNum == <<"num">>
JStr(s) == <<"str", s>>
JObj(f) == <<"obj", f>>
IsJStr(v) == v[1] = "str"
IsJObj(v) == v[1] = "obj"

\* Result<T, E>
Ok(x) == <<"Ok", x>>
Err(e) == <<"Err", e>>
IsOk(r) == r[1] = "Ok"
IsErr(r) == r[1] = "Err"

\* text that is not a JSON document (the empty string included)
NotJson == <<"notjson">>
JsonDoc(fields) == <<"json", fields>>

\* the states of the file at get_config_path()
Absent == <<"absent">>
Unreadable == <<"unreadable">>
Text(doc) == <<"text", doc>>

\* Serialize for ProviderConfig
SerializeProvider(pc) ==
    JObj([api_key |-> JStr(pc.api_key), base_url |-> JStr(pc.base_url),
          model |-> JStr(pc.model)])

\* Serialize without rename_all: the mood written by its variant name
to_string_pretty_variant(c) ==
    JsonDoc([provider  |-> IF c.provider = None THEN JNull
                           ELSE JStr(c.provider[1]),
             mood      |-> IF c.mood = None THEN JNull ELSE JStr(c.mood[1]),
             providers |-> JObj([n \in DOMAIN c.providers |->
                                    SerializeProvider(c.providers[n])])])

\* serde_json::to_string_pretty(config), Serialize derived for Config
to_string_pretty(c) ==
    JsonDoc([provider  |-> IF c.provider = None THEN JNull
                           ELSE JStr(c.provider[1]),
             mood      |-> IF c.mood = None THEN JNull
                           ELSE JStr(MoodToJson(c.mood[1])),
             providers |-> JObj([n \in DOMAIN c.providers |->
                                    SerializeProvider(c.providers[n])])])

\* Deserialize derived for ProviderConfig: every field a string
ProviderParses(v) ==
    /\ IsJObj(v)
    /\ IsJStr(v[2].api_key) /\ IsJStr(v[2].base_url) /\ IsJStr(v[2].model)

\* Deserialize derived for Option<String>
OptStringParses(v) == v \in {JMissing, JNull} \/ IsJStr(v)

\* Deserialize derived for Option<Mood>
OptMoodParses(v) ==
    v \in {JMissing, JNull} \/ (IsJStr(v) /\ v[2] \in MoodJsonNames)

\* Deserialize derived for HashMap<String, ProviderConfig>
ProvidersParse(v) ==
    IsJObj(v) /\ \A n \in DOMAIN v[2] : ProviderParses(v[2][n])

\* serde_json::from_str::<Config>
from_str(doc) ==
    IF doc[1] # "json" THEN Err("syntax")
    ELSE LET f == doc[2] IN
         IF ~(OptStringParses(f.provider) /\ OptMoodParses(f.mood)
              /\ ProvidersParse(f.providers))
         THEN Err("data")
         ELSE Ok(Config(
                IF IsJStr(f.provider) THEN Some(f.provider[2]) ELSE None,
                IF IsJStr(f.mood) THEN Some(MoodFromJson(f.mood[2])) ELSE None,
                [n \in DOMAIN f.providers[2] |->
                    LET e == f.providers[2][n][2] IN
                    ProviderConfig(e.api_key[2], e.base_url[2], e.model[2])]))

\* Path::exists
exists(file) == file # Absent

\* fs::read_to_string
read_to_string(file) ==
    IF file[1] = "text" THEN Ok(file[2]) ELSE Err("io")

\* Result::unwrap_or_default
unwrap_or_default(r, default) == IF IsOk(r) THEN r[2] ELSE default

\* load_config falling back to the built-in providers instead of the empty
\* default
load_config_builtin(file) ==
    IF exists(file)
    THEN LET content == unwrap_or_default(read_to_string(file), NotJson)
         IN  unwrap_or_default(from_str(content),
                               Config(None, None, default_providers))
    ELSE Config(None, None, default_providers)

\* fn load_config
load_config(file) ==
    IF exists(file)
    THEN LET content == unwrap_or_default(read_to_string(file), NotJson)
         IN  unwrap_or_default(from_str(content), DefaultConfig)
    ELSE DefaultConfig

\* the outcomes of save_config: Ok, or the error of create_dir_all or of
\* fs::write
SaveOutcomes == {"ok", "create_dir_all", "write"}

\* fn save_config: the file it leaves; a failed fs::write leaves the file as
\* it was or truncated
save_config(file, c, outcome, truncated) ==
    CASE outcome = "ok"             -> Text(to_string_pretty(c))
      [] outcome = "create_dir_all" -> file
      [] outcome = "write"          ->
            IF truncated THEN Text(NotJson) ELSE file

\* fn save_config: its result
save_result(outcome) ==
    IF outcome = "ok" THEN Ok(<<"unit">>) ELSE Err(<<"io">>)

\* ------------------------------------------------------------------ state

VARIABLES
    config_file,      \* the file at get_config_path()
    saved,            \* the Config of the last save_config that succeeded
    config,           \* the Config the last load_config returned
    last_op,          \* the last operation that returned
    entry,            \* the entry point of the last command: main.rs or a
                      \* pub fn of cli.rs / api.rs
    args,             \* main: the parsed Args
    prompt,           \* call_llm: its argument
    stdin,            \* the lines the last command read from stdin
    stdout,           \* what the last command printed on stdout
    request,          \* call_llm: the HTTP request sent
    requests,         \* the HTTP requests sent by the running invocation
    response,         \* call_llm: the HTTP response received
    result,           \* the Result the last command returned
    exit_code,        \* the exit code of the last invocation
    stderr,           \* what the last invocation printed on stderr
    file_before,      \* the config file when the last command started
    writes,           \* the fs::write calls of the last command
    env,              \* HISTFILE, SHELL, the home directory, the paths that
                      \* exist
    history_path,     \* what get_history_path() returned: Option<PathBuf>
    history_file,     \* the history file that exists
    commands_str,     \* the argument of parse_commands_from_string
    pc,               \* the position of the running operation
    caller,           \* who called get_last_commands
    count,            \* get_last_commands: its argument
    lines,            \* get_last_commands: content.lines() not yet consumed
    cmd,              \* get_last_commands: the last result of parse_zsh_line
    current_command,  \* get_last_commands: the entry being assembled
    commands,         \* get_last_commands: the Vec of entries
    parsed,           \* history: the entries as parsed, before the filter
    history_ret,      \* the Vec the last history operation returned
    history_op        \* the last history operation that returned

history_vars ==
    <<env, history_path, history_file, commands_str, caller, count, lines,
      cmd, current_command, commands, parsed, history_ret, history_op>>

store_vars == <<config_file, saved, config, last_op>>

cli_vars ==
    <<entry, args, prompt, stdin, stdout, request, requests, response, result,
      exit_code, stderr, file_before, writes>>

vars == <<store_vars, cli_vars, pc, history_vars>>

\* Args of an invocation not started
NoArgs ==
    [config_openai |-> FALSE, config_groq |-> FALSE, show_config |-> FALSE,
     prompt |-> <<>>]

\* no invocation has run
CliIdle ==
    /\ entry = "none"
    /\ args = NoArgs
    /\ prompt = <<>>
    /\ stdin = <<>>
    /\ stdout = <<>>
    /\ request = None
    /\ requests = 0
    /\ response = None
    /\ result = None
    /\ exit_code = None
    /\ stderr = <<>>
    /\ file_before = None
    /\ writes = 0

\* no config operation has run
StoreIdle ==
    /\ saved = None
    /\ config = None
    /\ last_op = "none"

\* ------------------------------------------------------ history: inputs

\* lines of a history file: an extended-format entry, a marker with no
\* semicolon, a marker with nothing after the semicolon, a plain line, a
\* self-invocation (indented), an extended-format self-invocation, a blank
\* line, an entry with a second semicolon and surrounding blanks, an empty
\* line
LinePool ==
    { <<":", " ", "1", ":", "0", ";", "l", "s">>,
      <<":", " ", "1", ":", "0">>,
      <<":", " ", "1", ":", "0", ";">>,
      <<"l", "s">>,
      <<" ", "s", "o", "r", "r", "y", " ", "x">>,
      <<":", " ", "1", ":", "0", ";", "s", "o", "r", "r", "y">>,
      <<" ">>,
      <<":", " ", "1", ":", "0", ";", " ", "a", ";", "b", " ">>,
      <<>> }

\* every sequence of at most n lines of the pool
LineSeqs(n) == UNION {[1..k -> LinePool] : k \in 0..n}

RECURSIVE JoinLines(_)
\* the text of a file with these lines, each ended by a newline
JoinLines(ls) ==
    IF ls = <<>> THEN <<>> ELSE Head(ls) \o <<"\n">> \o JoinLines(Tail(ls))

\* the texts of at most n lines
Texts(n) == {JoinLines(ls) : ls \in LineSeqs(n)}

\* $HOME/.zsh_history and $HOME/.bash_history, with HOME = /u
ZshHistory == <<"/", "u", "/", ".", "z", "s", "h", "_", "h", "i", "s", "t", "o", "r", "y">>
BashHistory == <<"/", "u", "/", ".", "b", "a", "s", "h", "_", "h", "i", "s", "t", "o", "r", "y">>

\* str::contains(&str)
ContainsStr(s, p) ==
    \E i \in 0..(Len(s) - Len(p)) : SubSeq(s, i + 1, i + Len(p)) = p

\* history_path.to_string_lossy().contains("zsh")
is_zsh(path) == ContainsStr(path, <<"z", "s", "h">>)

\* the names get_history_path joins to the home directory
DotZshHistory == <<".", "z", "s", "h", "_", "h", "i", "s", "t", "o", "r", "y">>
DotZhistory == <<".", "z", "h", "i", "s", "t", "o", "r", "y">>
MacZshHistory ==
    <<"L", "i", "b", "r", "a", "r", "y", "/", "H", "i", "s", "t", "o", "r", "y", "/", "z", "s", "h", "_", "h", "i", "s", "t", "o", "r", "y">>
DotBashHistory == <<".", "b", "a", "s", "h", "_", "h", "i", "s", "t", "o", "r", "y">>

\* PathBuf::join, of a relative name
path_join(home, name) == home \o <<"/">> \o name

\* the environment of a process: env::var("HISTFILE"), env::var("SHELL"),
\* dirs::home_dir() and the paths for which Path::exists holds
Env(histfile, shell, home, files) ==
    [HISTFILE |-> histfile, SHELL |-> shell, home |-> home, exists |-> files]

RECURSIVE find_exists(_, _)
\* candidates.into_iter().find(|p| p.exists())
find_exists(candidates, files) ==
    IF candidates = <<>> THEN None
    ELSE IF Head(candidates) \in files THEN Some(Head(candidates))
    ELSE find_exists(Tail(candidates), files)

\* fn get_history_path
get_history_path(e) ==
    IF e.HISTFILE # None /\ e.HISTFILE[1] \in e.exists
    THEN Some(e.HISTFILE[1])
    ELSE IF e.home = None THEN None
    ELSE LET home  == e.home[1]
             shell == IF e.SHELL = None THEN <<>> ELSE e.SHELL[1]
             known ==
                IF ContainsStr(shell, <<"z", "s", "h">>)
                THEN <<path_join(home, DotZshHistory),
                       path_join(home, DotZhistory),
                       path_join(home, MacZshHistory)>>
                ELSE IF ContainsStr(shell, <<"b", "a", "s", "h">>)
                THEN <<path_join(home, DotBashHistory)>>
                ELSE <<path_join(home, DotZshHistory),
                       path_join(home, DotBashHistory),
                       path_join(home, DotZhistory),
                       path_join(home, MacZshHistory)>>
             candidates ==
                IF e.HISTFILE # None /\ StartsWith(e.HISTFILE[1], <<"~", "/">>)
                THEN <<path_join(home, SubSeq(e.HISTFILE[1], 3,
                                              Len(e.HISTFILE[1])))>> \o known
                ELSE known
         IN  find_exists(candidates, e.exists)

\* the shells and the home directory of the environments
BinZsh == <<"/", "b", "i", "n", "/", "z", "s", "h">>
BinBash == <<"/", "b", "i", "n", "/", "b", "a", "s", "h">>
HomeU == <<"/", "u">>

\* a zsh user with ~/.zsh_history, a bash user with ~/.bash_history, a user
\* with no history file
ZshEnv == Env(None, Some(BinZsh), Some(HomeU), {ZshHistory})
BashEnv == Env(None, Some(BinBash), Some(HomeU), {BashHistory})
NoEnv == Env(None, None, Some(HomeU), {})

\* ------------------------------------------------- history: operations

\* commands.retain(|cmd| !cmd.trim().starts_with("sorry"))
retain(cs) == SelectSeq(cs, NotSorry)

\* the window taken at the front: commands[..min(count, len)]
last_commands_front(cs, n) == SubSeq(cs, 1, IF n < Len(cs) THEN n ELSE Len(cs))

\* let start = commands.len().saturating_sub(count); commands[start..].to_vec()
last_commands(cs, n) == SubSeq(cs, saturating_sub(Len(cs), n) + 1, Len(cs))

\* where get_last_commands returns to
Return == IF caller = "call_llm" THEN "llm_message" ELSE "idle"

\* get_last_commands, lines 94-110 and 143-149: locate and read the file,
\* choose the format; the bash format is parsed at once
GetLastCommandsFrom(who, n) ==
    /\ caller' = who
    /\ count' = n
    /\ cmd' = None
    /\ current_command' = <<>>
    /\ history_path' = get_history_path(env)
    /\ IF history_path' = None \/ IsErr(read_to_string(history_file))
       THEN /\ history_ret' = <<>>
            /\ history_op' = "no_history"
            /\ pc' = IF who = "call_llm" THEN "llm_message" ELSE "idle"
            /\ lines' = <<>>
            /\ commands' = <<>>
            /\ parsed' = <<>>
       ELSE LET content == read_to_string(history_file)[2] IN
            /\ history_ret' = <<>>
            /\ history_op' = "none"
            /\ parsed' = <<>>
            /\ IF is_zsh(history_path'[1])
               THEN /\ lines' = Lines(content)
                    /\ commands' = <<>>
                    /\ pc' = "zsh_loop"
               ELSE /\ lines' = <<>>
                    /\ commands' = filter_map_bash(Lines(content))
                    /\ pc' = "retain"
    /\ UNCHANGED <<env, history_file, commands_str>>

\* pub fn get_last_commands(count), called directly
GetLastCommands ==
    /\ pc = "idle"
    /\ \E n \in 0..MaxCount : GetLastCommandsFrom("direct", n)
    /\ UNCHANGED <<store_vars, cli_vars>>

\* get_last_commands, lines 112-137: one iteration of the zsh loop
ZshLine ==
    /\ pc = "zsh_loop"
    /\ lines # <<>>
    /\ LET line == Trim(Head(lines)) IN
       /\ lines' = Tail(lines)
       /\ IF line = <<>>
          THEN UNCHANGED <<cmd, current_command, commands>>
          ELSE IF StartsWith(line, Marker)
          THEN /\ commands' = IF current_command # <<>>
                              THEN Append(commands, Trim(current_command))
                              ELSE commands
               /\ cmd' = parse_zsh_line(line)
               /\ current_command' = IF cmd' # None THEN cmd'[1] ELSE <<>>
          ELSE /\ current_command' =
                    (IF current_command # <<>>
                     THEN current_command \o <<"\n">> ELSE <<>>) \o line
               /\ UNCHANGED <<cmd, commands>>
    /\ UNCHANGED <<store_vars, cli_vars, pc, env, history_path, history_file,
                   commands_str, caller, count, parsed, history_ret, history_op>>

\* get_last_commands, lines 139-142: the last entry
ZshLast ==
    /\ pc = "zsh_loop"
    /\ lines = <<>>
    /\ commands' = IF current_command # <<>>
                   THEN Append(commands, Trim(current_command))
                   ELSE commands
    /\ pc' = "retain"
    /\ UNCHANGED <<store_vars, cli_vars, env, history_path, history_file,
                   commands_str, caller, count, lines, cmd, current_command, parsed,
                   history_ret, history_op>>

\* get_last_commands, lines 151-152: drop the self-invocations
Retain ==
    /\ pc = "retain"
    /\ parsed' = commands
    /\ commands' = retain(commands)
    /\ pc' = "slice"
    /\ UNCHANGED <<store_vars, cli_vars, env, history_path, history_file,
                   commands_str, caller, count, lines, cmd, current_command, history_ret,
                   history_op>>

\* get_last_commands, lines 154-156: the last `count` entries
Slice ==
    /\ pc = "slice"
    /\ history_ret' = last_commands(commands, count)
    /\ history_op' = "get_last_commands"
    /\ pc' = Return
    /\ UNCHANGED <<store_vars, cli_vars, env, history_path, history_file,
                   commands_str, caller, count, lines, cmd, current_command, commands,
                   parsed>>

\* pub fn parse_commands_from_string(commands_str)
ParseCommandsFromString ==
    /\ pc = "idle"
    /\ history_ret' = parse_commands_from_string(commands_str)
    /\ history_op' = "parse_commands_from_string"
    /\ UNCHANGED <<store_vars, cli_vars, pc, env, history_path, history_file,
                   commands_str, caller, count, lines, cmd, current_command, commands,
                   parsed>>

\* the history operations have not run
HistoryIdle ==
    /\ pc = "idle"
    /\ caller = "direct"
    /\ count = 0
    /\ lines = <<>>
    /\ cmd = None
    /\ current_command = <<>>
    /\ commands = <<>>
    /\ parsed = <<>>
    /\ history_ret = <<>>
    /\ history_op = "none"

\* a history file of at most MaxLines lines in either format, or a
\* --last-commands string of as many lines
InitHistory ==
    /\ config_file = Absent
    /\ StoreIdle
    /\ CliIdle
    /\ HistoryIdle
    /\ history_path = None
    /\ \/ /\ env \in {ZshEnv, BashEnv}
          /\ history_file \in {Unreadable} \cup {Text(t) : t \in Texts(MaxLines)}
          /\ commands_str = <<>>
       \/ /\ env = NoEnv
          /\ history_file = Absent
          /\ commands_str \in Texts(MaxLines)

NextHistory ==
    \/ GetLastCommands
    \/ ZshLine
    \/ ZshLast
    \/ Retain
    \/ Slice
    \/ ParseCommandsFromString

SpecHistory == InitHistory /\ [][NextHistory]_vars

\* ------------------------------------------------------ history: claims

Min(a, b) == IF a <= b THEN a ELSE b

\* the entry begins with the tool's own name
BeginsWithSorry(e) ==
    Len(e) >= Len(ToolName) /\ \A i \in 1..Len(ToolName) : e[i] = ToolName[i]

\* the entries that do not begin with the tool's own name, in order
WithoutSorry(es) == SelectSeq(es, LAMBDA e : ~BeginsWithSorry(e))

\* C1: get_last_commands(count) returns exactly the last min(count, k)
\* entries of F, the parsed entries without those beginning with "sorry",
\* in the order of the file: the filter is applied before the window.
C1_LastCommands ==
    history_op = "get_last_commands" =>
        LET F == WithoutSorry(parsed)
            k == Len(F)
            m == Min(count, k)
        IN  /\ Len(history_ret) = m
            /\ \A i \in 1..m : history_ret[i] = F[k - m + i]

\* a self-invocation lies in the last `count` parsed entries and more than
\* `count` other entries exist: the window is cut, after the filter
C1_Witness ==
    /\ history_op = "get_last_commands"
    /\ count >= 1
    /\ Len(WithoutSorry(parsed)) > count
    /\ \E i \in 1..Len(parsed) :
          i > Len(parsed) - count /\ BeginsWithSorry(parsed[i])
    /\ Len(history_ret) = count

\* the trimmed, non-blank lines of a newline-separated string
NonBlankLines(str) ==
    LET ls == Lines(str) IN
    SelectSeq([i \in 1..Len(ls) |-> Trim(ls[i])], LAMBDA l : l # <<>>)

\* C2: no entry returned by get_last_commands or parse_commands_from_string
\* begins with "sorry", and the filter removes no other entry.
C2_SelfExclusion ==
    /\ history_op \in {"get_last_commands", "parse_commands_from_string"} =>
          \A i \in 1..Len(history_ret) : ~BeginsWithSorry(history_ret[i])
    /\ (pc = "slice" \/ history_op = "get_last_commands") =>
          commands = WithoutSorry(parsed)
    /\ history_op = "parse_commands_from_string" =>
          history_ret = WithoutSorry(NonBlankLines(commands_str))

\* the most recent parsed entry is a self-invocation and is excluded, the
\* entries before it are returned
C2_Witness ==
    /\ history_op = "get_last_commands"
    /\ parsed # <<>>
    /\ BeginsWithSorry(parsed[Len(parsed)])
    /\ history_ret # <<>>
    /\ history_ret = WithoutSorry(parsed)

\* the line, trimmed, begins with the zsh marker ": "
IsMarkerLine(l) ==
    LET t == Trim(l) IN Len(t) >= 2 /\ t[1] = ":" /\ t[2] = " "

\* the line, trimmed, cut after its first semicolon
Remainder(l) ==
    LET t == Trim(l)
        i == CHOOSE i \in 1..Len(t) : t[i] = ";" /\ \A j \in 1..(i - 1) : t[j] # ";"
    IN  [j \in 1..(Len(t) - i) |-> t[i + j]]

HasSemicolon(l) == \E i \in 1..Len(l) : l[i] = ";"

\* the zsh loop is about to consume a marker line
AtMarkerLine == pc = "zsh_loop" /\ lines # <<>> /\ IsMarkerLine(Head(lines))

\* C3, as amended: a zsh marker line with a semicolon yields exactly the
\* non-empty remainder of the trimmed line after its first semicolon; a
\* marker line with no semicolon, or with nothing after its first semicolon,
\* is discarded and opens no entry.
C3_MarkerLine ==
    [][AtMarkerLine =>
        IF HasSemicolon(Head(lines)) /\ Remainder(Head(lines)) # <<>>
        THEN cmd' = Some(Remainder(Head(lines)))
             /\ current_command' = Remainder(Head(lines))
        ELSE cmd' = None /\ current_command' = <<>>]_vars

\* C3, as claimed: every marker line with a semicolon yields the remainder
\* after its first semicolon as command text, only a marker line with no
\* semicolon is discarded.
C3_MarkerLine_Original ==
    [][AtMarkerLine =>
        IF HasSemicolon(Head(lines))
        THEN cmd' = Some(Remainder(Head(lines)))
        ELSE cmd' = None /\ current_command' = <<>>]_vars

\* a marker line with two semicolons was cut at the first
C3_Witness ==
    /\ pc = "zsh_loop"
    /\ cmd = Some(<<" ", "a", ";", "b">>)
    /\ current_command = <<" ", "a", ";", "b">>

\* the index of the first non-blank line (0: none)
FirstNonBlank(ls) ==
    IF \E i \in 1..Len(ls) : Trim(ls[i]) # <<>>
    THEN CHOOSE i \in 1..Len(ls) :
            Trim(ls[i]) # <<>> /\ \A j \in 1..(i - 1) : Trim(ls[j]) = <<>>
    ELSE 0

\* the marker lines that open an entry
WellFormedMarkers(ls) ==
    {i \in 1..Len(ls) :
        IsMarkerLine(ls[i]) /\ HasSemicolon(ls[i]) /\ Remainder(ls[i]) # <<>>}

\* C4: in a zsh history file that begins with a marker line, a line that
\* is not a marker line never starts an entry of its own: the number of
\* entries parsed equals the number of well-formed marker lines, and the
\* continuation lines of a discarded marker are no entry.
C4_Continuation ==
    (pc = "retain" /\ history_path # None /\ is_zsh(history_path[1])) =>
        LET ls == Lines(read_to_string(history_file)[2]) IN
        (FirstNonBlank(ls) # 0 /\ IsMarkerLine(ls[FirstNonBlank(ls)])) =>
            Len(commands) = Cardinality(WellFormedMarkers(ls))

\* ----------------------------------------------------- config: operations

\* the API keys and model names of the model
K1 == <<"k", "1">>
K2 == <<"k", "2">>
M1 == <<"m", "1">>
ProviderNames == {"openai", "groq"}

\* the ProviderConfig values of provider n
ProviderConfigs(n) ==
    {ProviderConfig(k, default_base_url(n), m) :
        k \in {<<>>, K1}, m \in {default_model(n), M1}}

\* the HashMap values: every mapping of some provider names
ProviderMaps ==
    UNION {{f \in [ns -> UNION {ProviderConfigs(n) : n \in ns}] :
                \A n \in ns : f[n] \in ProviderConfigs(n)} :
           ns \in SUBSET ProviderNames}

\* the Config values
ConfigValues ==
    {Config(p, m, ps) :
        p \in {None} \cup {Some(n) : n \in ProviderNames},
        m \in {None} \cup {Some(x) : x \in Moods},
        ps \in ProviderMaps}

\* a JSON entry of providers
JProvider(api_key, base_url, model) ==
    JObj([api_key |-> api_key, base_url |-> base_url, model |-> model])

\* the config files an invocation may find: none, one that cannot be read,
\* text that is no JSON, JSON that is no Config (providers missing, provider
\* a number, a mood name not in lowercase, an entry without api_key), and
\* Configs: empty, an active provider with no entry, the built-in providers
\* with no key, a configured provider with a mood, one written without mood
InitFiles ==
    { Absent, Unreadable, Text(NotJson),
      Text(JsonDoc([provider |-> JNull, mood |-> JNull,
                    providers |-> JMissing])),
      Text(JsonDoc([provider |-> JNum, mood |-> JNull,
                    providers |-> JObj(EmptyMap)])),
      Text(JsonDoc([provider |-> JStr("openai"), mood |-> JStr("Princess"),
                    providers |-> JObj(EmptyMap)])),
      Text(JsonDoc([provider |-> JStr("openai"), mood |-> JMissing,
                    providers |-> JObj([n \in {"openai"} |->
                        JProvider(JMissing, JStr("u"), JStr(M1))])])),
      Text(to_string_pretty(DefaultConfig)),
      Text(to_string_pretty(Config(Some("openai"), None, EmptyMap))),
      Text(to_string_pretty(Config(Some("groq"), None, default_providers))),
      Text(to_string_pretty(Config(Some("openai"), Some("Bro"),
            [n \in {"openai"} |->
                ProviderConfig(K1, default_base_url(n), M1)]))),
      Text(JsonDoc([provider |-> JStr("groq"), mood |-> JMissing,
                    providers |-> JObj([n \in {"groq"} |->
                        JProvider(JStr(K2), JStr("u"), JStr(M1))])])) }

\* pub fn save_config(config), called directly
SaveConfig ==
    /\ pc = "idle"
    /\ \E c \in ConfigValues, outcome \in SaveOutcomes, truncated \in BOOLEAN :
          /\ config_file' = save_config(config_file, c, outcome, truncated)
          /\ result' = Some(save_result(outcome))
          /\ saved' = IF outcome = "ok" THEN Some(c)
                      ELSE IF config_file' = config_file THEN saved ELSE None
    /\ last_op' = "save_config"
    /\ config' = None
    /\ UNCHANGED <<pc, history_vars, entry, args, prompt, stdin, stdout, request,
                   requests, response, exit_code, stderr, file_before,
                   writes>>

\* pub fn load_config(), called directly
LoadConfig ==
    /\ pc = "idle"
    /\ config' = Some(load_config(config_file))
    /\ last_op' = "load_config"
    /\ UNCHANGED <<config_file, saved, pc, history_vars, cli_vars>>

\* no history is looked at
NoHistory ==
    /\ HistoryIdle
    /\ env = NoEnv
    /\ history_path = None
    /\ history_file = Absent
    /\ commands_str = <<>>

InitConfig ==
    /\ config_file \in InitFiles
    /\ StoreIdle
    /\ CliIdle
    /\ NoHistory

NextConfig ==
    \/ SaveConfig
    \/ LoadConfig

SpecConfig == InitConfig /\ [][NextConfig]_vars

\* --------------------------------------------------------- config: claims

\* C5: load_config() after a successful save_config(c) returns a Config
\* with the same active provider, the same mood, the same provider names
\* and the same api_key, base_url and model for each provider.
C5_RoundTrip ==
    (last_op = "load_config" /\ saved # None) =>
        LET c == saved[1]
            l == config[1]
        IN  /\ l.provider = c.provider
            /\ l.mood = c.mood
            /\ DOMAIN l.providers = DOMAIN c.providers
            /\ \A n \in DOMAIN c.providers :
                  /\ l.providers[n].api_key = c.providers[n].api_key
                  /\ l.providers[n].base_url = c.providers[n].base_url
                  /\ l.providers[n].model = c.providers[n].model

\* a Config with an active provider, a mood and two providers was saved and
\* loaded
C5_Witness ==
    /\ last_op = "load_config"
    /\ saved # None
    /\ saved[1].provider = Some("groq")
    /\ saved[1].mood = Some("Bitch")
    /\ DOMAIN saved[1].providers = ProviderNames
    /\ saved[1].providers["groq"].api_key = K1
    /\ config = saved

\* the file is missing, cannot be read, or its text is no Config
NoConfigIn(file) ==
    \/ file = Absent
    \/ file = Unreadable
    \/ file[1] = "text" /\ IsErr(from_str(file[2]))

\* C6: load_config returns a Config and never an error; when the file is
\* missing, unreadable or does not parse as a Config it returns the empty
\* default Config; it never modifies the file.
C6_FailSoft ==
    [][last_op' = "load_config" =>
        /\ config_file' = config_file
        /\ config' # None
        /\ result' = result
        /\ NoConfigIn(config_file) =>
              /\ config'[1].provider = None
              /\ config'[1].mood = None
              /\ DOMAIN config'[1].providers = {}]_vars

\* a file of JSON that is no Config was loaded as the empty default
C6_Witness ==
    /\ last_op = "load_config"
    /\ config_file[1] = "text"
    /\ config_file[2][1] = "json"
    /\ IsErr(from_str(config_file[2]))
    /\ config = Some(DefaultConfig)

\* ------------------------------------------------- main.rs: its own Config

\* serde_json::from_str::<Config> for the Config of main.rs, which has no
\* mood: the field is ignored whatever it holds
main_from_str(doc) ==
    IF doc[1] # "json" THEN Err("syntax")
    ELSE LET f == doc[2] IN
         IF ~(OptStringParses(f.provider) /\ ProvidersParse(f.providers))
         THEN Err("data")
         ELSE Ok(Config(
                IF IsJStr(f.provider) THEN Some(f.provider[2]) ELSE None,
                None,
                [n \in DOMAIN f.providers[2] |->
                    LET e == f.providers[2][n][2] IN
                    ProviderConfig(e.api_key[2], e.base_url[2], e.model[2])]))

\* fn load_config (main.rs)
main_load_config(file) ==
    IF exists(file)
    THEN LET content == unwrap_or_default(read_to_string(file), NotJson)
         IN  unwrap_or_default(main_from_str(content), DefaultConfig)
    ELSE DefaultConfig

\* serde_json::to_string_pretty for the Config of main.rs: no mood key
main_to_string_pretty(c) ==
    JsonDoc([provider  |-> IF c.provider = None THEN JNull
                           ELSE JStr(c.provider[1]),
             mood      |-> JMissing,
             providers |-> JObj([n \in DOMAIN c.providers |->
                                    SerializeProvider(c.providers[n])])])

\* fn save_config (main.rs): the file it leaves
main_save_config(file, c, outcome, truncated) ==
    CASE outcome = "ok"             -> Text(main_to_string_pretty(c))
      [] outcome = "create_dir_all" -> file
      [] outcome = "write"          ->
            IF truncated THEN Text(NotJson) ELSE file

\* the functions of the entry point v: "main" for main.rs, else the modules
Load(v, file) ==
    IF v = "main" THEN main_load_config(file) ELSE load_config(file)
Save(v, file, c, outcome, truncated) ==
    IF v = "main" THEN main_save_config(file, c, outcome, truncated)
    ELSE save_config(file, c, outcome, truncated)
DefaultModel(v, provider) ==
    IF v = "main" THEN main_default_model(provider)
    ELSE default_model(provider)
DefaultProviders(v) ==
    IF v = "main" THEN main_default_providers ELSE default_providers

\* ------------------------------------------------------------ cli: stdin

\* the wrong read_line: the line as typed, only its newline removed
read_line_untrimmed(raw) ==
    IF raw # <<>> /\ raw[Len(raw)] = "\n"
    THEN SubSeq(raw, 1, Len(raw) - 1) ELSE raw

\* fn read_line: the next line of stdin (empty at end of input), trimmed
read_line(raw) == Trim(raw)

\* the lines typed at "Enter API key: "
KeyInputs ==
    { <<>>, <<"\n">>, <<" ", "\n">>, <<"k", "1", "\n">>,
      <<" ", "k", "1", " ", "\n">> }

\* the lines typed at "Enter model name"
ModelInputs == { <<"\n">>, <<"m", "1", "\n">>, <<" ", "\n">> }

\* the lines typed at "Select mood [1-3]: "
MoodInputs ==
    { <<>>, <<"\n">>, <<"0", "\n">>, <<"1", "\n">>, <<"2", "\n">>,
      <<" ", "3", " ", "\n">>, <<"4", "\n">>, <<"x", "\n">>,
      <<"+", "2", "\n">>, <<"0", "1", "\n">>, <<"-", "1", "\n">>,
      <<"1", "0", "\n">>, <<"1", "x", "\n">> }

Digits == {"0", "1", "2", "3", "4", "5", "6", "7", "8", "9"}

DigitValue(c) ==
    CASE c = "0" -> 0 [] c = "1" -> 1 [] c = "2" -> 2 [] c = "3" -> 3
      [] c = "4" -> 4 [] c = "5" -> 5 [] c = "6" -> 6 [] c = "7" -> 7
      [] c = "8" -> 8 [] c = "9" -> 9

RECURSIVE DecimalValue(_)
DecimalValue(ds) ==
    IF ds = <<>> THEN 0
    ELSE 10 * DecimalValue(SubSeq(ds, 1, Len(ds) - 1)) + DigitValue(ds[Len(ds)])

\* str::parse::<usize>: an optional "+", then one or more digits (the inputs
\* of the model are far below usize::MAX)
parse_usize(str) ==
    LET ds == IF str # <<>> /\ str[1] = "+" THEN Tail(str) ELSE str IN
    IF ds = <<>> THEN Err("empty")
    ELSE IF \E i \in 1..Len(ds) : ds[i] \notin Digits THEN Err("invalid digit")
    ELSE Ok(DecimalValue(ds))

\* -------------------------------------------------------- cli: commands

\* Mood::display_name
display_name(m) ==
    CASE m = "Princess" -> "Treat me like a princess"
      [] m = "Bro"      -> "Treat me like a bro"
      [] m = "Bitch"    -> "Treat me like a bitch"

\* Option<Mood>::unwrap_or_default
mood_or_default(m) == IF m = None THEN DefaultMood ELSE m[1]

\* what a command leaves: the config file, its Result, its fs::write calls
\* and its output
Outcome(file, res, w, out) ==
    [file |-> file, result |-> res, writes |-> w, stdout |-> out]

\* configure_provider_interactive without the test of the key: an empty key
\* is stored like any other
configure_provider_interactive_any_key(v, file, provider, lns, outcome, truncated) ==
    LET loaded  == Load(v, file)
        config0 == IF DOMAIN loaded.providers = {}
                   THEN [loaded EXCEPT !.providers = DefaultProviders(v)]
                   ELSE loaded
        api_key == read_line(lns[1])
    IN  IF FALSE
        THEN Outcome(file, Err(<<"API key cannot be empty.">>), 0,
                     <<<<"Configuring ", provider>>>>)
        ELSE LET default     == DefaultModel(v, provider)
                 model_input == read_line(lns[2])
                 model       == IF model_input = <<>> THEN default
                                ELSE model_input
                 inserted    == IF provider \in DOMAIN config0.providers
                                THEN config0.providers[provider]
                                ELSE ProviderConfig(<<>>,
                                        default_base_url(provider), default)
                 providers1  ==
                    [n \in DOMAIN config0.providers \cup {provider} |->
                        IF n = provider
                        THEN [inserted EXCEPT !.api_key = api_key,
                                              !.model = model]
                        ELSE config0.providers[n]]
                 config1     == Config(Some(provider), config0.mood, providers1)
             IN  Outcome(Save(v, file, config1, outcome, truncated),
                         save_result(outcome),
                         IF outcome = "create_dir_all" THEN 0 ELSE 1,
                         <<<<"Configuring ", provider>>>> \o
                         (IF outcome = "ok"
                          THEN <<<<"Configured ", provider, model>>>>
                          ELSE <<>>))

\* fn configure_provider_interactive(provider), of cli.rs (v = "cli") and of
\* main.rs (v = "main"); stdin is the key line and the model line
configure_provider_interactive(v, file, provider, lns, outcome, truncated) ==
    LET loaded  == Load(v, file)
        config0 == IF DOMAIN loaded.providers = {}
                   THEN [loaded EXCEPT !.providers = DefaultProviders(v)]
                   ELSE loaded
        api_key == read_line(lns[1])
    IN  IF api_key = <<>>
        THEN Outcome(file, Err(<<"API key cannot be empty.">>), 0,
                     <<<<"Configuring ", provider>>>>)
        ELSE LET default     == DefaultModel(v, provider)
                 model_input == read_line(lns[2])
                 model       == IF model_input = <<>> THEN default
                                ELSE model_input
                 inserted    == IF provider \in DOMAIN config0.providers
                                THEN config0.providers[provider]
                                ELSE ProviderConfig(<<>>,
                                        default_base_url(provider), default)
                 providers1  ==
                    [n \in DOMAIN config0.providers \cup {provider} |->
                        IF n = provider
                        THEN [inserted EXCEPT !.api_key = api_key,
                                              !.model = model]
                        ELSE config0.providers[n]]
                 config1     == Config(Some(provider), config0.mood, providers1)
             IN  Outcome(Save(v, file, config1, outcome, truncated),
                         save_result(outcome),
                         IF outcome = "create_dir_all" THEN 0 ELSE 1,
                         <<<<"Configuring ", provider>>>> \o
                         (IF outcome = "ok"
                          THEN <<<<"Configured ", provider, model>>>>
                          ELSE <<>>))

\* the menu configure_behaviour prints
MoodMenu(current) ==
    <<<<"Configure sorry's behaviour">>, <<"Choose a mood:">>,
      <<1, display_name("Princess"), current = "Princess">>,
      <<2, display_name("Bro"), current = "Bro">>,
      <<3, display_name("Bitch"), current = "Bitch">>>>

\* fn configure_behaviour; stdin is the selection line
configure_behaviour(file, lns, outcome, truncated) ==
    LET config0 == load_config(file)
        menu    == MoodMenu(mood_or_default(config0.mood))
        input   == read_line(lns[1])
        idx     == parse_usize(input)
    IN  IF IsOk(idx) /\ from_index(idx[2]) # None
        THEN LET mood    == from_index(idx[2])[1]
                 config1 == [config0 EXCEPT !.mood = Some(mood)]
             IN  Outcome(save_config(file, config1, outcome, truncated),
                         save_result(outcome),
                         IF outcome = "create_dir_all" THEN 0 ELSE 1,
                         menu \o (IF outcome = "ok"
                                  THEN <<<<"Mood set to: ", display_name(mood)>>>>
                                  ELSE <<>>))
        ELSE Outcome(file, Ok(<<"unit">>), 0,
                     menu \o <<<<"Invalid selection, mood unchanged.">>>>)

\* the "API Key:" line printing the key itself
key_status_shown(api_key) ==
    IF api_key = <<>> THEN "not set" ELSE api_key

\* the "API Key:" line of show_config
key_status(api_key) ==
    IF api_key = <<>> THEN "not set" ELSE "configured (hidden)"

\* fn show_config (cli.rs): the lines it prints
show_config(file) ==
    LET c == load_config(file) IN
    <<<<>>, <<"Mood: ", display_name(mood_or_default(c.mood))>>, <<>>>>
    \o (IF c.provider # None
        THEN <<<<"Provider: ", c.provider[1]>>>>
             \o (IF c.provider[1] \in DOMAIN c.providers
                 THEN LET pcfg == c.providers[c.provider[1]] IN
                      <<<<"  Base URL: ", pcfg.base_url>>,
                        <<"  Model: ", pcfg.model>>,
                        <<"  API Key: ", key_status(pcfg.api_key)>>>>
                 ELSE <<>>)
        ELSE <<<<"Provider: not configured">>,
               <<"Run 'sorry --config-openai' or 'sorry --config-groq' to set up.">>>>)
    \o <<<<>>>>

\* fn show_config (main.rs): the lines it prints
main_show_config(file) ==
    LET c == main_load_config(file) IN
    IF c.provider # None
    THEN <<<<"Active provider: ", c.provider[1]>>>>
         \o (IF c.provider[1] \in DOMAIN c.providers
             THEN LET pcfg == c.providers[c.provider[1]] IN
                  <<<<"  Base URL: ", pcfg.base_url>>,
                    <<"  Model: ", pcfg.model>>,
                    <<"  API Key: ", key_status(pcfg.api_key)>>>>
             ELSE <<>>)
    ELSE <<<<"No provider configured.">>,
           <<"Run 'sorry --config-openai' or 'sorry --config-groq' to set up.">>>>

\* ------------------------------------------------------------ api: call_llm

\* call_llm without the test of the API key
call_llm_checks_no_key(c) ==
    IF c.provider = None
    THEN Err(<<"No provider configured. Run 'sorry --config-openai' or 'sorry --config-groq' first.">>)
    ELSE IF c.provider[1] \notin DOMAIN c.providers
    THEN Err(<<"Provider '", c.provider[1], "' not found in config.">>)
    ELSE Ok(c.providers[c.provider[1]])

\* call_llm, lines 54-69: the provider of the request, or the error
call_llm_checks(c) ==
    IF c.provider = None
    THEN Err(<<"No provider configured. Run 'sorry --config-openai' or 'sorry --config-groq' first.">>)
    ELSE IF c.provider[1] \notin DOMAIN c.providers
    THEN Err(<<"Provider '", c.provider[1], "' not found in config.">>)
    ELSE IF c.providers[c.provider[1]].api_key = <<>>
    THEN Err(<<"API key not set for provider '", c.provider[1],
               "'. Run 'sorry --config-", c.provider[1], "' to configure.">>)
    ELSE Ok(c.providers[c.provider[1]])

RECURSIVE ToDecimal(_)
\* format!("{}", n) of a usize
ToDecimal(n) ==
    LET d == CHOOSE c \in Digits : DigitValue(c) = n % 10 IN
    IF n < 10 THEN <<d>> ELSE ToDecimal(n \div 10) \o <<d>>

\* the character U+0060, which a TLA+ string cannot hold
Backtick == "U+0060"

\* format_history_context: the literals around the numbered commands
ContextHeader ==
    <<"H", "e", "r", "e", " ", "a", "r", "e", " ", "m", "y", " ", "l", "a", "s", "t", " ", "t", "e", "r", "m", "i", "n", "a", "l", " ", "c", "o", "m", "m", "a", "n", "d", "s", ":", "\n", Backtick, Backtick, Backtick, "\n">>
ContextFooter == <<Backtick, Backtick, Backtick, "\n", "\n">>
QuestionLabel ==
    <<"M", "y", " ", "q", "u", "e", "s", "t", "i", "o", "n", "/", "p", "r", "o", "b", "l", "e", "m", ":", " ">>

RECURSIVE NumberedFrom_zero_based(_, _)
\* the loop numbering with the index itself: "{i}. {cmd}\n"
NumberedFrom_zero_based(i, cs) ==
    IF cs = <<>> THEN <<>>
    ELSE ToDecimal(i) \o <<".", " ">> \o Head(cs) \o <<"\n">>
         \o NumberedFrom_zero_based(i + 1, Tail(cs))

RECURSIVE NumberedFrom(_, _)
\* the loop of format_history_context: "{i + 1}. {cmd}\n" for each command
NumberedFrom(i, cs) ==
    IF cs = <<>> THEN <<>>
    ELSE ToDecimal(i + 1) \o <<".", " ">> \o Head(cs) \o <<"\n">>
         \o NumberedFrom(i + 1, Tail(cs))

\* fn format_history_context
format_history_context(cs) ==
    IF cs = <<>> THEN <<>>
    ELSE ContextHeader \o NumberedFrom(0, cs) \o ContextFooter

\* call_llm, lines 78-83 (api.rs): the user message
user_message(history_context, p) ==
    IF history_context = <<>> THEN p
    ELSE history_context \o QuestionLabel \o p

\* call_llm, lines 85-107: the request; main.rs sends a fixed system prompt
\* and the bare prompt
ChatRequest(v, c, provider, p, cs) ==
    [url           |-> <<provider.base_url, "/chat/completions">>,
     authorization |-> <<"Bearer ", provider.api_key>>,
     model         |-> provider.model,
     system        |-> IF v = "main" THEN <<"helpful assistant">>
                       ELSE <<"system_prompt", mood_or_default(c.mood)>>,
     user          |-> IF v = "main" THEN p
                       ELSE user_message(format_history_context(cs), p)]

\* JSON arrays
JArr(xs) == <<"arr", xs>>

\* a choice of a chat response
JChoice(content) == JObj([message |-> JObj([content |-> content])])

\* a response body that is a JSON object
Body(error, choices) == JsonDoc([error |-> error, choices |-> choices])

\* the bodies of the model: no JSON, an error with a message, an error that
\* is a string, choices (none, one, two, one without content), both an error
\* and choices, an empty object
Bodies ==
    { NotJson,
      Body(JObj([message |-> JStr("invalid key")]), JMissing),
      Body(JStr("bad request"), JMissing),
      Body(JMissing, JArr(<<>>)),
      Body(JMissing, JArr(<<JChoice(JStr("run git reflog"))>>)),
      Body(JMissing, JArr(<<JChoice(JStr("first")), JChoice(JStr("second"))>>)),
      Body(JMissing, JArr(<<JChoice(JNull)>>)),
      Body(JObj([message |-> JStr("overloaded")]),
           JArr(<<JChoice(JStr("partial"))>>)),
      Body(JMissing, JMissing) }

\* the status codes of the model
Statuses == {200, 204, 401, 500}

\* StatusCode::is_success
is_success(status) == 200 <= status /\ status <= 299

\* serde_json::from_str::<ApiError>
from_str_ApiError(body) ==
    IF body[1] = "json" /\ IsJObj(body[2].error)
       /\ IsJStr(body[2].error[2].message)
    THEN Ok(body[2].error[2].message[2])
    ELSE Err("data")

\* Deserialize derived for ChatChoice
ChoiceParses(v) ==
    IsJObj(v) /\ IsJObj(v[2].message) /\ IsJStr(v[2].message[2].content)

\* serde_json::from_str::<ChatResponse>: the contents of the choices
from_str_ChatResponse(body) ==
    IF body[1] = "json" /\ body[2].choices[1] = "arr"
       /\ \A i \in 1..Len(body[2].choices[2]) :
             ChoiceParses(body[2].choices[2][i])
    THEN Ok([i \in 1..Len(body[2].choices[2]) |->
                body[2].choices[2][i][2].message[2].content[2]])
    ELSE Err("data")

\* call_llm parsing the chat response before it looks at the status
classify_body_first(status, body) ==
    LET chat == from_str_ChatResponse(body) IN
    IF IsOk(chat) /\ chat[2] # <<>> THEN Ok(<<chat[2][1]>>)
    ELSE IF ~is_success(status)
    THEN LET api_error == from_str_ApiError(body) IN
         IF IsOk(api_error) THEN Err(<<"API error: ", api_error[2]>>)
         ELSE Err(<<"API request failed with status ", status, ": ", body>>)
    ELSE IF IsErr(chat)
    THEN Err(<<"Failed to parse API response: ", chat[2], ". Body: ", body>>)
    ELSE Err(<<"No response from API">>)

\* call_llm, lines 112-129: the Result for a response
classify(status, body) ==
    IF ~is_success(status)
    THEN LET api_error == from_str_ApiError(body) IN
         IF IsOk(api_error) THEN Err(<<"API error: ", api_error[2]>>)
         ELSE Err(<<"API request failed with status ", status, ": ", body>>)
    ELSE LET chat == from_str_ChatResponse(body) IN
         IF IsErr(chat)
         THEN Err(<<"Failed to parse API response: ", chat[2], ". Body: ", body>>)
         ELSE IF chat[2] = <<>> THEN Err(<<"No response from API">>)
         ELSE Ok(<<chat[2][1]>>)

\* ------------------------------------------------------------ invocations

\* get_last_commands(10) in call_llm
HistoryCount == 10

\* the words of a prompt
Oops == <<"o", "o", "p", "s">>
Git == <<"g", "i", "t">>

\* Args::prompt: the trailing arguments
PromptArgs == {<<>>, <<Oops, Git>>}

\* struct Args
Args(openai, groq, show, words) ==
    [config_openai |-> openai, config_groq |-> groq, show_config |-> show,
     prompt |-> words]

\* Args::parse(): no argument, a prompt, each flag alone, and flags given
\* together or with a prompt
ArgsSet ==
    { Args(FALSE, FALSE, FALSE, <<>>),
      Args(FALSE, FALSE, FALSE, <<Oops, Git>>),
      Args(TRUE, FALSE, FALSE, <<>>),
      Args(FALSE, TRUE, FALSE, <<>>),
      Args(FALSE, FALSE, TRUE, <<>>),
      Args(TRUE, TRUE, TRUE, <<Oops, Git>>),
      Args(FALSE, TRUE, TRUE, <<>>),
      Args(FALSE, FALSE, TRUE, <<Oops, Git>>) }

RECURSIVE join(_)
\* args.prompt.join(" ")
join(words) ==
    IF words = <<>> THEN <<>>
    ELSE IF Len(words) = 1 THEN Head(words)
    ELSE Head(words) \o <<" ">> \o join(Tail(words))

\* eprintln!("Error: {}", e)
ErrorLine(res) == IF IsErr(res) THEN <<<<"Error: ", res[2]>>>> ELSE <<>>

\* the usage lines of main
Usage ==
    <<<<"Usage: sorry <your message about what went wrong>">>,
      <<"       sorry --config-openai">>,
      <<"       sorry --config-groq">>,
      <<"       sorry --show-config">>>>

\* a command starts from entry point e
Start(e, a) ==
    /\ entry' = e
    /\ args' = a
    /\ requests' = 0
    /\ request' = None
    /\ response' = None
    /\ file_before' = Some(config_file)

\* a command returns
Done(op, file, res, w, lns, out, err, code) ==
    /\ last_op' = op
    /\ config_file' = file
    /\ result' = res
    /\ writes' = w
    /\ stdin' = lns
    /\ stdout' = out
    /\ stderr' = err
    /\ exit_code' = code
    /\ pc' = "exit"

\* main, line 363: a process starts and parses its arguments
Main ==
    /\ pc = "idle"
    /\ \E a \in ArgsSet : Start("main", a)
    /\ prompt' = <<>>
    /\ last_op' = "main"
    /\ result' = None
    /\ writes' = 0
    /\ stdin' = <<>>
    /\ stdout' = <<>>
    /\ stderr' = <<>>
    /\ exit_code' = None
    /\ pc' = "main"
    /\ UNCHANGED <<config_file, saved, config, history_vars>>

\* the lines configure_provider_interactive reads: the model only after a
\* key
LinesRead(key, model) ==
    IF read_line(key) = <<>> THEN <<key>> ELSE <<key, model>>

\* main, lines 365-381: --config-openai, then --config-groq
MainConfigureProvider ==
    /\ pc = "main"
    /\ args.config_openai \/ args.config_groq
    /\ LET provider == IF args.config_openai THEN "openai" ELSE "groq" IN
       \E key \in KeyInputs, model \in ModelInputs,
          outcome \in SaveOutcomes, truncated \in BOOLEAN :
          LET o == configure_provider_interactive("main", config_file,
                        provider, <<key, model>>, outcome, truncated)
          IN  Done("configure_provider_interactive", o.file, Some(o.result),
                   o.writes, LinesRead(key, model), o.stdout,
                   ErrorLine(o.result),
                   Some(IF IsErr(o.result) THEN 1 ELSE 0))
    /\ UNCHANGED <<saved, config, history_vars, entry, args, prompt, request,
                   requests, response, file_before>>

\* main, lines 383-387: --show-config
MainShowConfig ==
    /\ pc = "main"
    /\ ~args.config_openai /\ ~args.config_groq
    /\ args.show_config
    /\ Done("show_config", config_file, None, 0, <<>>,
            main_show_config(config_file), <<>>, Some(0))
    /\ UNCHANGED <<saved, config, history_vars, entry, args, prompt, request,
                   requests, response, file_before>>

\* main, lines 389-396: no prompt
MainUsage ==
    /\ pc = "main"
    /\ ~args.config_openai /\ ~args.config_groq /\ ~args.show_config
    /\ args.prompt = <<>>
    /\ Done("usage", config_file, None, 0, <<>>, <<>>, Usage, Some(1))
    /\ UNCHANGED <<saved, config, history_vars, entry, args, prompt, request,
                   requests, response, file_before>>

\* the entry points that are a process: the main of main.rs and the
\* invocation with --last-commands
Processes == {"main", "last_commands"}

\* call_llm returns to its caller: main prints and exits
CallLlmDone(e, res) ==
    Done("call_llm", config_file, Some(res), 0, <<>>,
         IF e \in Processes /\ IsOk(res) THEN <<res[2]>> ELSE <<>>,
         IF e \in Processes THEN ErrorLine(res) ELSE <<>>,
         IF e \in Processes THEN Some(IF IsOk(res) THEN 0 ELSE 1) ELSE None)

\* main, lines 398-400, and call_llm of main.rs, lines 291-309
MainCallLlm ==
    /\ pc = "main"
    /\ ~args.config_openai /\ ~args.config_groq /\ ~args.show_config
    /\ args.prompt # <<>>
    /\ prompt' = join(args.prompt)
    /\ LET c == main_load_config(config_file) IN
       IF IsErr(call_llm_checks(c))
       THEN /\ CallLlmDone("main", call_llm_checks(c))
            /\ UNCHANGED config
       ELSE /\ config' = Some(c)
            /\ pc' = "llm_message"
            /\ UNCHANGED <<config_file, last_op, result, writes, stdin,
                           stdout, stderr, exit_code>>
    /\ UNCHANGED <<saved, history_vars, entry, args, request, requests,
                   response, file_before>>

\* pub fn call_llm(prompt) of api.rs, lines 51-75
ApiCallLlm ==
    /\ pc = "idle"
    /\ Start("api", NoArgs)
    /\ \E words \in PromptArgs \ {<<>>} : prompt' = join(words)
    /\ LET c == load_config(config_file) IN
       IF IsErr(call_llm_checks(c))
       THEN /\ CallLlmDone("api", call_llm_checks(c))
            /\ UNCHANGED <<config, history_vars>>
       ELSE /\ config' = Some(c)
            /\ GetLastCommandsFrom("call_llm", HistoryCount)
            /\ last_op' = "none"
            /\ result' = None
            /\ writes' = 0
            /\ stdin' = <<>>
            /\ stdout' = <<>>
            /\ stderr' = <<>>
            /\ exit_code' = None
            /\ UNCHANGED config_file
    /\ UNCHANGED saved

\* the texts handed over with --last-commands: none, commands with a
\* self-invocation, a blank line and surrounding blanks, a self-invocation
\* alone
LastCommandsTexts ==
    { <<>>,
      <<"l", "s", "\n", " ", "s", "o", "r", "r", "y", " ", "x", "\n", " ", "\n", " ", "g", "i", "t", " ">>,
      <<"s", "o", "r", "r", "y", "\n">> }

\* `sorry --last-commands <text> <words>`: the prompt path with the history
\* handed over by the caller, parsed by parse_commands_from_string in place
\* of get_last_commands
MainLastCommands ==
    /\ pc = "idle"
    /\ Start("last_commands", NoArgs)
    /\ \E words \in PromptArgs \ {<<>>} : prompt' = join(words)
    /\ \E text \in LastCommandsTexts : commands_str' = text
    /\ LET c == load_config(config_file) IN
       IF IsErr(call_llm_checks(c))
       THEN /\ CallLlmDone("last_commands", call_llm_checks(c))
            /\ UNCHANGED <<config, history_ret, history_op>>
       ELSE /\ config' = Some(c)
            /\ history_ret' = parse_commands_from_string(commands_str')
            /\ history_op' = "parse_commands_from_string"
            /\ pc' = "llm_message"
            /\ last_op' = "none"
            /\ result' = None
            /\ writes' = 0
            /\ stdin' = <<>>
            /\ stdout' = <<>>
            /\ stderr' = <<>>
            /\ exit_code' = None
            /\ UNCHANGED config_file
    /\ UNCHANGED <<saved, env, history_path, history_file, caller, count, lines,
                   cmd, current_command, commands, parsed>>

\* the HTTP responses of the model
Responses == [status : Statuses, body : Bodies]

\* call_llm, lines 76-110: build the message, send the request, read the
\* response; send() and text() may fail
LlmSend ==
    /\ pc = "llm_message"
    /\ LET v        == IF entry = "main" THEN "main" ELSE "api"
           provider == call_llm_checks(config[1])[2]
       IN  request' = Some(ChatRequest(v, config[1], provider, prompt,
                                       history_ret))
    /\ requests' = requests + 1
    /\ \/ /\ \E r \in Responses : response' = Some(r)
          /\ pc' = "llm_response"
          /\ UNCHANGED <<config_file, last_op, result, writes, stdin, stdout,
                         stderr, exit_code>>
       \/ /\ \E failed \in {"send", "text"} :
                CallLlmDone(entry, Err(<<"reqwest::Error", failed>>))
          /\ response' = None
    /\ UNCHANGED <<saved, config, history_vars, entry, args, prompt,
                   file_before>>

\* call_llm, lines 112-129: the Result for the response
LlmResponse ==
    /\ pc = "llm_response"
    /\ CallLlmDone(entry, classify(response[1].status, response[1].body))
    /\ UNCHANGED <<saved, config, history_vars, entry, args, prompt, request,
                   requests, response, file_before>>

\* pub fn configure_provider_interactive(provider) of cli.rs
CliConfigureProvider ==
    /\ pc = "idle"
    /\ Start("cli", NoArgs)
    /\ \E provider \in ProviderNames, key \in KeyInputs, model \in ModelInputs,
          outcome \in SaveOutcomes, truncated \in BOOLEAN :
          LET o == configure_provider_interactive("cli", config_file,
                        provider, <<key, model>>, outcome, truncated)
          IN  Done("configure_provider_interactive", o.file, Some(o.result),
                   o.writes, LinesRead(key, model), o.stdout, <<>>, None)
    /\ UNCHANGED <<saved, config, history_vars, prompt>>

\* pub fn configure_behaviour() of cli.rs
CliConfigureBehaviour ==
    /\ pc = "idle"
    /\ Start("cli", NoArgs)
    /\ \E raw \in MoodInputs, outcome \in SaveOutcomes, truncated \in BOOLEAN :
          LET o == configure_behaviour(config_file, <<raw>>, outcome, truncated)
          IN  Done("configure_behaviour", o.file, Some(o.result), o.writes,
                   <<raw>>, o.stdout, <<>>, None)
    /\ UNCHANGED <<saved, config, history_vars, prompt>>

\* pub fn show_config() of cli.rs
CliShowConfig ==
    /\ pc = "idle"
    /\ Start("cli", NoArgs)
    /\ Done("show_config", config_file, None, 0, <<>>,
            show_config(config_file), <<>>, None)
    /\ UNCHANGED <<saved, config, history_vars, prompt>>

\* main returns or calls process::exit, a pub fn returns to its caller:
\* nothing but the files outlives the command
Exit ==
    /\ pc = "exit"
    /\ pc' = "idle"
    /\ config' = None
    /\ last_op' = "none"
    /\ entry' = "none"
    /\ args' = NoArgs
    /\ prompt' = <<>>
    /\ stdin' = <<>>
    /\ stdout' = <<>>
    /\ request' = None
    /\ requests' = 0
    /\ response' = None
    /\ result' = None
    /\ exit_code' = None
    /\ stderr' = <<>>
    /\ file_before' = None
    /\ writes' = 0
    /\ caller' = "direct"
    /\ count' = 0
    /\ lines' = <<>>
    /\ cmd' = None
    /\ current_command' = <<>>
    /\ commands' = <<>>
    /\ parsed' = <<>>
    /\ history_ret' = <<>>
    /\ history_op' = "none"
    /\ commands_str' = <<>>
    /\ history_path' = None
    /\ UNCHANGED <<config_file, saved, env, history_file>>

\* the history an invocation finds: none, a zsh file, a bash file
HistoryEnvs ==
    { <<NoEnv, Absent>>,
      <<ZshEnv,
        Text(JoinLines(<< <<":", " ", "1", ":", "0", ";", "l", "s">>,
                          <<" ", "s", "o", "r", "r", "y", " ", "x">> >>))>>,
      <<BashEnv,
        Text(JoinLines(<< <<"l", "s">>,
                          <<" ", "s", "o", "r", "r", "y", " ", "x">> >>))>> }

Init ==
    /\ config_file \in InitFiles
    /\ StoreIdle
    /\ CliIdle
    /\ HistoryIdle
    /\ \E e \in HistoryEnvs : env = e[1] /\ history_file = e[2]
    /\ history_path = None
    /\ commands_str = <<>>

Next ==
    \/ Main
    \/ MainConfigureProvider
    \/ MainShowConfig
    \/ MainUsage
    \/ MainCallLlm
    \/ ApiCallLlm
    \/ MainLastCommands
    \/ ZshLine
    \/ ZshLast
    \/ Retain
    \/ Slice
    \/ LlmSend
    \/ LlmResponse
    \/ CliConfigureProvider
    \/ CliConfigureBehaviour
    \/ CliShowConfig
    \/ Exit

Spec == Init /\ [][Next]_vars

\* ------------------------------------------------------------ cli: claims

\* the body carries {error: {message: <string>}}
HasErrorMessage(b) ==
    /\ b[1] = "json"
    /\ b[2].error[1] = "obj"
    /\ b[2].error[2].message[1] = "str"

\* the body is a chat response: choices, each with a message content
IsChatResponse(b) ==
    /\ b[1] = "json"
    /\ b[2].choices[1] = "arr"
    /\ \A i \in 1..Len(b[2].choices[2]) :
          LET ch == b[2].choices[2][i] IN
          /\ ch[1] = "obj"
          /\ ch[2].message[1] = "obj"
          /\ ch[2].message[2].content[1] = "str"

\* the error is the message parts ps, in order
IsError(r, ps) ==
    /\ r[1] = "Err"
    /\ Len(r[2]) = Len(ps)
    /\ \A i \in 1..Len(ps) : r[2][i] = ps[i]

\* C7: the outcome of call_llm is determined by (status, body): non-success
\* with {error:{message}} gives "API error: <message>", non-success
\* otherwise an error with the status and the raw body; success with a chat
\* response gives the content of the first choice, with no choice the error
\* "No response from API", with any other body a parse error with the raw
\* body.
C7_Classification ==
    (last_op = "call_llm" /\ response # None) =>
        LET st == response[1].status
            b  == response[1].body
            r  == result[1]
        IN  IF ~(st \in 200..299)
            THEN IF HasErrorMessage(b)
                 THEN IsError(r, <<"API error: ", b[2].error[2].message[2]>>)
                 ELSE /\ r[1] = "Err"
                      /\ Len(r[2]) = 4
                      /\ r[2][1] = "API request failed with status "
                      /\ r[2][2] = st
                      /\ r[2][4] = b
            ELSE IF IsChatResponse(b)
                 THEN IF b[2].choices[2] # <<>>
                      THEN /\ r[1] = "Ok"
                           /\ r[2] = <<b[2].choices[2][1][2].message[2].content[2]>>
                      ELSE IsError(r, <<"No response from API">>)
                 ELSE /\ r[1] = "Err"
                      /\ Len(r[2]) = 4
                      /\ r[2][1] = "Failed to parse API response: "
                      /\ r[2][4] = b

\* a success status with an empty choices list gave "No response from API"
C7_Witness ==
    /\ last_op = "call_llm"
    /\ response # None
    /\ response[1].status = 200
    /\ IsChatResponse(response[1].body)
    /\ response[1].body[2].choices[2] = <<>>
    /\ IsError(result[1], <<"No response from API">>)

\* the Config the command of entry point e loads from the file
Loaded(e, file) == IF e = "main" THEN main_load_config(file) ELSE load_config(file)

\* C8: an invocation sends at most one HTTP request and none when it is a
\* configuration command, show-config or has no prompt; a request is sent
\* only if the loaded config has an active provider that names an entry of
\* providers with a non-empty api_key, and otherwise call_llm fails with
\* the errors no provider configured, provider not found, API key not set,
\* tested in that order.
C8_OneRequest ==
    /\ requests <= 1
    /\ (entry = "main"
        /\ (args.config_openai \/ args.config_groq \/ args.show_config
            \/ args.prompt = <<>>)) => requests = 0
    /\ last_op \in {"configure_provider_interactive", "configure_behaviour",
                    "show_config", "usage"} => requests = 0
    /\ requests = 1 =>
          LET c == Loaded(entry, file_before[1]) IN
          /\ c.provider # None
          /\ c.provider[1] \in DOMAIN c.providers
          /\ c.providers[c.provider[1]].api_key # <<>>
    /\ (last_op = "call_llm" /\ requests = 0) =>
          LET c == Loaded(entry, file_before[1])
              r == result[1]
          IN  IF c.provider = None
              THEN r[1] = "Err" /\ Len(r[2]) = 1
              ELSE IF c.provider[1] \notin DOMAIN c.providers
              THEN /\ r[1] = "Err" /\ Len(r[2]) = 3
                   /\ r[2][3] = "' not found in config."
              ELSE /\ c.providers[c.provider[1]].api_key = <<>>
                   /\ r[1] = "Err" /\ Len(r[2]) = 5
                   /\ r[2][1] = "API key not set for provider '"

\* an invocation of main sent its request, failed and exited with 1 after
\* that single request
C8_Witness ==
    /\ pc = "exit"
    /\ entry = "main"
    /\ last_op = "call_llm"
    /\ requests = 1
    /\ result[1][1] = "Err"
    /\ exit_code = Some(1)

\* the selection typed does not denote 1, 2 or 3
InvalidSelection(raw) ==
    LET n == parse_usize(Trim(raw)) IN ~(n[1] = "Ok" /\ n[2] \in {1, 2, 3})

\* C9: when the input to configure_behaviour is not one of 1, 2, 3 the
\* config file is identical before and after, it is not written, and the
\* command returns Ok.
C9_InvalidMood ==
    (last_op = "configure_behaviour" /\ InvalidSelection(stdin[1])) =>
        /\ config_file = file_before[1]
        /\ writes = 0
        /\ result = Some(Ok(<<"unit">>))

\* the selection 0 left a stored mood as it was
C9_Witness ==
    /\ last_op = "configure_behaviour"
    /\ stdin = << <<"0", "\n">> >>
    /\ load_config(config_file).mood = Some("Bro")
    /\ writes = 0
    /\ result = Some(Ok(<<"unit">>))

\* the line holds nothing but white space
IsBlank(raw) == \A i \in 1..Len(raw) : raw[i] \in {" ", "\t", "\r", "\n"}

\* C10: when the API key entered is empty after trimming,
\* configure_provider_interactive fails with "API key cannot be empty.",
\* the config file is identical before and after and is not written, and
\* main exits with code 1.
C10_EmptyKey ==
    (last_op = "configure_provider_interactive" /\ IsBlank(stdin[1])) =>
        /\ IsError(result[1], <<"API key cannot be empty.">>)
        /\ config_file = file_before[1]
        /\ writes = 0
        /\ entry = "main" =>
              /\ exit_code = Some(1)
              /\ stderr = << <<"Error: ", <<"API key cannot be empty.">> >> >>

\* a key of blanks was typed to main with a provider already active: the
\* provider stayed and the process exited with 1
C10_Witness ==
    /\ last_op = "configure_provider_interactive"
    /\ entry = "main"
    /\ args.config_openai
    /\ stdin = << <<" ", "\n">> >>
    /\ load_config(config_file).provider = Some("groq")
    /\ exit_code = Some(1)

\* the keys a stored config may hold in place of its own
SecretKeys == {K1, K2, <<"s", "3", "c", "r", "3", "t">>}

\* the config file with every non-empty api_key replaced by k
WithKey(file, k) ==
    IF file[1] = "text" /\ file[2][1] = "json" /\ file[2][2].providers[1] = "obj"
    THEN LET f  == file[2][2]
             ps == f.providers[2]
         IN  Text(JsonDoc([f EXCEPT !.providers =
                JObj([n \in DOMAIN ps |->
                    IF ps[n][1] = "obj" /\ ps[n][2].api_key[1] = "str"
                       /\ ps[n][2].api_key[2] # <<>>
                    THEN JObj([ps[n][2] EXCEPT !.api_key = JStr(k)])
                    ELSE ps[n]])]))
    ELSE file

\* the "API Key" lines of an output
KeyLines(out) ==
    {i \in 1..Len(out) : Len(out[i]) = 2 /\ out[i][1] = "  API Key: "}

\* C11: show_config prints the same output for any two stored configs that
\* differ only in the values of non-empty api_key fields; its "API Key"
\* line says "not set" for an empty key and "configured (hidden)" for any
\* other, and nothing else of the output depends on the key.
C11_KeyHidden ==
    last_op = "show_config" =>
        LET file    == file_before[1]
            show(f) == IF entry = "main" THEN main_show_config(f)
                       ELSE show_config(f)
            c       == Loaded(entry, file)
        IN  /\ \A k \in SecretKeys : stdout = show(WithKey(file, k))
            /\ \A i \in KeyLines(stdout) :
                  /\ c.provider # None
                  /\ c.provider[1] \in DOMAIN c.providers
                  /\ stdout[i][2] =
                        IF c.providers[c.provider[1]].api_key = <<>>
                        THEN "not set" ELSE "configured (hidden)"
            /\ (c.provider # None /\ c.provider[1] \in DOMAIN c.providers)
                  => KeyLines(stdout) # {}

\* show_config ran on a config whose active provider holds the key K2, and
\* printed "configured (hidden)"
C11_Witness ==
    /\ last_op = "show_config"
    /\ LET c == Loaded(entry, file_before[1]) IN
       /\ c.provider = Some("groq")
       /\ "groq" \in DOMAIN c.providers
       /\ c.providers["groq"].api_key = K2
    /\ \E i \in KeyLines(stdout) : stdout[i][2] = "configured (hidden)"

FormatLinePool ==
    { <<":", " ", "1", ":", "0", ";", "c", "a", "t">>,
      <<"2", ".", " ", "x">>,
      <<"b">> }

\* every sequence of at most n lines of that pool
FormatLineSeqs(n) == UNION {[1..k -> FormatLinePool] : k \in 0..n}

\* the history call_llm finds: a bash file of at most MaxLines lines, a zsh
\* extended-format file of as many lines (its first line opens an entry),
\* or a bash file of one command more than call_llm asks for
FormatEnvs ==
    {<<BashEnv, Text(JoinLines(ls))>> : ls \in FormatLineSeqs(MaxLines)}
    \cup {<<ZshEnv, Text(JoinLines(ls))>> :
            ls \in {l \in FormatLineSeqs(MaxLines) :
                        l # <<>> => StartsWith(l[1], Marker)}}
    \cup {<<BashEnv,
            Text(JoinLines([i \in 1..(HistoryCount + 1) |-> <<"b">>]))>>}

\* a configured provider, and one of those histories
InitFormat ==
    /\ config_file =
          Text(to_string_pretty(Config(Some("openai"), Some("Bro"),
                [n \in {"openai"} |->
                    ProviderConfig(K1, default_base_url(n), M1)])))
    /\ StoreIdle
    /\ CliIdle
    /\ HistoryIdle
    /\ \E e \in FormatEnvs : env = e[1] /\ history_file = e[2]
    /\ history_path = None
    /\ commands_str = <<>>

NextFormat ==
    \/ ApiCallLlm
    \/ ZshLine
    \/ ZshLast
    \/ Retain
    \/ Slice
    \/ LlmSend
    \/ LlmResponse
    \/ Exit

SpecFormat == InitFormat /\ [][NextFormat]_vars

\* ------------------------------------------------- the user message: claims

\* the decimal digits, by value
DigitOf == <<"1", "2", "3", "4", "5", "6", "7", "8", "9">>

\* the decimal numeral of i, 1 <= i <= 99
Numeral(i) ==
    IF i < 10 THEN <<DigitOf[i]>>
    ELSE <<DigitOf[i \div 10], IF i % 10 = 0 THEN "0" ELSE DigitOf[i % 10]>>

\* the line begins with a number followed by ". "
IsNumbered(l) ==
    \E n \in 1..(Len(l) - 2) :
        /\ \A j \in 1..n : l[j] \in {"0"} \cup {DigitOf[d] : d \in 1..9}
        /\ l[n + 1] = "."
        /\ l[n + 2] = " "

\* the numbered lines of a text
NumberedLines(t) == SelectSeq(Lines(t), IsNumbered)

\* the text of a command up to its first newline
FirstLine(c) ==
    IF \E i \in 1..Len(c) : c[i] = "\n"
    THEN SubSeq(c, 1, (CHOOSE i \in 1..Len(c) :
                        c[i] = "\n" /\ \A j \in 1..(i - 1) : c[j] # "\n") - 1)
    ELSE c

\* the lines of a command after its first
LaterLines(c) == IF Lines(c) = <<>> THEN <<>> ELSE Tail(Lines(c))

\* no command has a later line that reads as a numbered line
NoNumberedContinuation(cs) ==
    \A i \in 1..Len(cs) :
        \A j \in 1..Len(LaterLines(cs[i])) : ~IsNumbered(LaterLines(cs[i])[j])

RECURSIVE Items(_, _)
\* "i. <command i>" and a newline, for the commands from the i-th on
Items(cs, i) ==
    IF i > Len(cs) THEN <<>>
    ELSE Numeral(i) \o <<".", " ">> \o cs[i] \o <<"\n">> \o Items(cs, i + 1)

\* what precedes the labelled prompt in a user message
ContextOf(msg, p) == SubSeq(msg, 1, Len(msg) - Len(QuestionLabel) - Len(p))

\* the message ends with the labelled prompt
EndsWithQuestion(msg, p) ==
    /\ Len(msg) >= Len(QuestionLabel) + Len(p)
    /\ SubSeq(msg, Len(msg) - Len(QuestionLabel) - Len(p) + 1, Len(msg))
          = QuestionLabel \o p

\* call_llm of api.rs has built its user message
MessageBuilt == entry = "api" /\ request # None

\* C13, as claimed: with no command the user message is exactly the prompt;
\* with k >= 1 commands, commands with embedded newlines included, the
\* context holds exactly k numbered lines, the i-th numbered i and carrying
\* the i-th command, and the message is the context followed by the
\* labelled prompt.
C13_Format_Original ==
    MessageBuilt =>
        LET cs  == history_ret
            msg == request[1].user
        IN  IF cs = <<>> THEN msg = prompt
            ELSE /\ EndsWithQuestion(msg, prompt)
                 /\ LET nl == NumberedLines(ContextOf(msg, prompt)) IN
                    /\ Len(nl) = Len(cs)
                    /\ \A i \in 1..Len(cs) :
                          StartsWith(nl[i],
                                     Numeral(i) \o <<".", " ">> \o FirstLine(cs[i]))

\* C13, as amended: with no command the user message is exactly the prompt;
\* with k >= 1 commands the context is the header, then "i. <command i>"
\* and a newline for i = 1..k in the order of the list, then the footer,
\* and the message is the context followed by the labelled prompt; when no
\* command has a later line that itself begins with a number and ". ", the
\* context holds exactly k numbered lines, the i-th being "i. " and the
\* first line of the i-th command.
C13_Format ==
    MessageBuilt =>
        LET cs  == history_ret
            msg == request[1].user
        IN  IF cs = <<>> THEN msg = prompt
            ELSE /\ msg = ContextHeader \o Items(cs, 1) \o ContextFooter
                           \o QuestionLabel \o prompt
                 /\ NoNumberedContinuation(cs) =>
                       LET nl == NumberedLines(ContextOf(msg, prompt)) IN
                       /\ Len(nl) = Len(cs)
                       /\ \A i \in 1..Len(cs) :
                             nl[i] = Numeral(i) \o <<".", " ">> \o FirstLine(cs[i])

\* a message was built from two commands, the first of two lines
C13_Witness ==
    /\ MessageBuilt
    /\ Len(history_ret) = 2
    /\ history_ret[1] = <<"c", "a", "t", "\n", "b">>
    /\ Len(NumberedLines(ContextOf(request[1].user, prompt))) = 2
    /\ Len(Lines(ContextOf(request[1].user, prompt))) = 7

\* ------------------------------------ sequences of configuration commands

\* no config file yet, no history
InitSequences ==
    /\ config_file = Absent
    /\ StoreIdle
    /\ CliIdle
    /\ NoHistory

NextSequences ==
    \/ Main
    \/ MainConfigureProvider
    \/ MainShowConfig
    \/ MainUsage
    \/ MainCallLlm
    \/ ApiCallLlm
    \/ LlmSend
    \/ LlmResponse
    \/ CliConfigureProvider
    \/ CliConfigureBehaviour
    \/ CliShowConfig
    \/ Exit

SpecSequences == InitSequences /\ [][NextSequences]_vars

\* --------------------------------------------------- sequences: claims

\* the file holds a JSON document with a string as active provider
HasActiveProvider(file) ==
    /\ file[1] = "text"
    /\ file[2][1] = "json"
    /\ file[2][2].provider[1] = "str"

\* the active provider of the file names an entry with a non-empty key
ActiveProviderUsable(file) ==
    LET f == file[2][2]
        p == f.provider[2]
    IN  /\ f.providers[1] = "obj"
        /\ p \in DOMAIN f.providers[2]
        /\ f.providers[2][p][1] = "obj"
        /\ f.providers[2][p][2].api_key[1] = "str"
        /\ f.providers[2][p][2].api_key[2] # <<>>

\* C14: starting from an absent config file, after any sequence of
\* configure-provider and configure-mood invocations with any input,
\* whenever the stored active provider is set it names an entry of providers
\* whose api_key is non-empty, and a send-prompt never fails with provider
\* not found or API key not set.
C14_ActiveProvider ==
    /\ HasActiveProvider(config_file) => ActiveProviderUsable(config_file)
    /\ (last_op = "call_llm" /\ result[1][1] = "Err") =>
          result[1][2][1] \notin {"Provider '", "API key not set for provider '"}

\* both providers and a mood were configured, groq last, and a send-prompt
\* then sent its request
C14_Witness ==
    /\ last_op = "call_llm"
    /\ requests = 1
    /\ HasActiveProvider(config_file)
    /\ config_file[2][2].provider[2] = "groq"
    /\ config_file[2][2].mood = JStr("bitch")
    /\ config_file[2][2].providers[2]["openai"][2].api_key = JStr(K1)
    /\ ActiveProviderUsable(config_file)

\* the file holds a Config: what load_config of config.rs reads from it
ValidStored(file) == file[1] = "text" /\ IsOk(from_str(file[2]))

\* C15: on a valid stored config, a successful configure-provider for p
\* sets the active provider to p, p's api_key to the key entered and p's
\* model to the model entered (the built-in default when blank), and leaves
\* the stored mood, every other provider's entry and the base_url of an
\* existing p unchanged; a successful configure-mood sets the mood and
\* leaves the active provider and the providers mapping unchanged.
C15_Frame ==
    (/\ last_op \in {"configure_provider_interactive", "configure_behaviour"}
     /\ result[1][1] = "Ok"
     /\ writes = 1
     /\ ValidStored(file_before[1])) =>
        LET before == from_str(file_before[1][2])[2]
            after  == from_str(config_file[2])[2]
        IN  /\ ValidStored(config_file)
            /\ IF last_op = "configure_provider_interactive"
               THEN LET p == stdout[1][2] IN
                    /\ after.provider = Some(p)
                    /\ p \in DOMAIN after.providers
                    /\ after.providers[p].api_key = Trim(stdin[1])
                    /\ after.providers[p].model =
                          IF Trim(stdin[2]) = <<>>
                          THEN DefaultModel(entry, p) ELSE Trim(stdin[2])
                    /\ after.mood = before.mood
                    /\ \A n \in DOMAIN before.providers \ {p} :
                          /\ n \in DOMAIN after.providers
                          /\ after.providers[n] = before.providers[n]
                    /\ p \in DOMAIN before.providers =>
                          after.providers[p].base_url =
                             before.providers[p].base_url
               ELSE /\ after.mood # None
                    /\ after.mood = from_index(parse_usize(Trim(stdin[1]))[2])
                    /\ after.provider = before.provider
                    /\ after.providers = before.providers

\* --------------------------------------------- history: the zsh formats

\* a zsh history file in the simple format: no line is a marker line
ZshSimpleFile ==
    /\ history_path # None
    /\ is_zsh(history_path[1])
    /\ history_file[1] = "text"
    /\ \A i \in 1..Len(Lines(history_file[2])) :
          ~IsMarkerLine(Lines(history_file[2])[i])

\* C16: on a zsh history file in the simple format every non-blank line is
\* one command: get_last_commands(count) returns the last min(count, k) of
\* its k non-blank lines that do not begin with "sorry", one entry per
\* line.
C16_ZshSimple ==
    (history_op = "get_last_commands" /\ ZshSimpleFile) =>
        LET F == WithoutSorry(NonBlankLines(history_file[2]))
            k == Len(F)
            m == Min(count, k)
        IN  /\ Len(history_ret) = m
            /\ \A i \in 1..m : history_ret[i] = F[k - m + i]

\* ------------------------------------------ history: locating the file

\* a home directory whose path holds the text "zsh"
HomeZsh == <<"/", "z", "s", "h">>

\* values of HISTFILE: an absolute path, and one to expand against the home
HistfileAbs == <<"/", "h">>
HistfileTilde == <<"~", "/", "h">>

\* the paths get_history_path may test, for a home directory
PathsOf(home) ==
    {HistfileAbs} \cup
    (IF home = None THEN {}
     ELSE {path_join(home[1], n) :
             n \in {DotZshHistory, DotZhistory, MacZshHistory, DotBashHistory,
                    <<"h">>}})

\* the environments: HISTFILE unset, absolute or with "~/"; SHELL zsh, bash
\* or unset; a home directory or none; at most two of the paths exist
PathEnvs ==
    UNION {{Env(histfile, shell, home, files) :
                files \in {f \in SUBSET PathsOf(home) : Cardinality(f) <= 2}} :
           histfile \in {None, Some(HistfileAbs), Some(HistfileTilde)},
           shell \in {None, Some(BinZsh), Some(BinBash)},
           home \in {None, Some(HomeU), Some(HomeZsh)}}

\* a history with an entry of two lines and an entry of one, as zsh writes
\* it in the extended format
ExtendedText ==
    JoinLines(<< <<":", " ", "1", ":", "0", ";", "l", "s">>,
                 <<"x">>,
                 <<":", " ", "1", ":", "0", ";", "g", "i", "t">> >>)

\* any environment, the history file that exists holding ExtendedText
InitPaths ==
    /\ config_file = Absent
    /\ StoreIdle
    /\ CliIdle
    /\ HistoryIdle
    /\ env \in PathEnvs
    /\ history_path = None
    /\ history_file = Text(ExtendedText)
    /\ commands_str = <<>>

NextPaths ==
    \/ GetLastCommands
    \/ ZshLine
    \/ ZshLast
    \/ Retain
    \/ Slice

SpecPaths == InitPaths /\ [][NextPaths]_vars

\* the path is one of the zsh candidates, or the HISTFILE of a zsh shell
IsZshCandidate(path, e) ==
    \/ /\ e.home # None
       /\ path \in {path_join(e.home[1], n) :
                      n \in {DotZshHistory, DotZhistory, MacZshHistory}}
    \/ /\ e.SHELL = Some(BinZsh)
       /\ e.HISTFILE # None
       /\ \/ path = e.HISTFILE[1]
          \/ e.home # None /\ e.HISTFILE[1] = HistfileTilde
             /\ path = path_join(e.home[1], <<"h">>)

\* the path is the bash candidate
IsBashCandidate(path, e) ==
    e.home # None /\ path = path_join(e.home[1], DotBashHistory)

\* C17: a history file that is one of the zsh candidates or the HISTFILE of
\* a zsh shell is parsed with the zsh rules (one entry per marker line, its
\* continuation lines joined to it, no returned entry carrying the header),
\* and the bash candidate with the bash rule (one command per line),
\* whatever else its path contains.
C17_FormatSelection ==
    (history_op = "get_last_commands" /\ history_path # None) =>
        LET ls == Lines(history_file[2]) IN
        /\ IsZshCandidate(history_path[1], env) =>
              /\ Len(history_ret) =
                    Min(count, Cardinality({i \in WellFormedMarkers(ls) :
                                   ~BeginsWithSorry(Trim(Remainder(ls[i])))}))
              /\ \A i \in 1..Len(history_ret) :
                    ~StartsWith(history_ret[i], Marker)
        /\ IsBashCandidate(history_path[1], env) =>
              LET F == WithoutSorry(NonBlankLines(history_file[2]))
                  m == Min(count, Len(F))
              IN  /\ Len(history_ret) = m
                  /\ \A i \in 1..m : history_ret[i] = F[Len(F) - m + i]

====
